---- MODULE Spec2Model ----
(***************************************************************************)
(* Model of the prescription data analyzer: the three aggregators of       *)
(* utils/useful_utilities.py (calculate_metrics, recommendations,          *)
(* most_prescribed) applied to the collections the read_* functions build. *)
(*                                                                         *)
(* Prices and quantities are float64 in the program.  They are modelled by *)
(* integers, and a quotient by the exact fraction in lowest terms, so that *)
(* two averages are equal (or ordered) exactly when the quotients are.     *)
(* A Python dict is modelled by the sequence of its entries in insertion   *)
(* order, which is the order in which the program iterates over it.        *)
(***************************************************************************)
EXTENDS Integers, Sequences, FiniteSets, TLC

VARIABLES pharmacy_chains, claims, reverts, metrics, recs, most_presc, ran

vars == <<pharmacy_chains, claims, reverts, metrics, recs, most_presc, ran>>

(***************************************************************************)
(* Bounds of the model.                                                    *)
(***************************************************************************)
\* claims / reverts read by calculate_metrics.py
MaxClaimsM == 3
MaxRevertsM == 2
\* claims / reverts read by most_prescribed.py
MaxClaimsQ == 4
MaxRevertsQ == 2
\* claims / reverts read by recommendations.py
MaxClaimsR == 3
MaxRevertsR == 2
\* claims / reverts when the three reports are computed from the same files
MaxClaimsA == 2
MaxRevertsA == 2

NPIs == {"p1", "p2"}
NDCs == {"d1", "d2"}
Prices == {10, 20}
Quantities == {3, 5}
\* rows of the pharmacy CSV file, in file order: p3 is in no file
PharmacyFile == << <<"p1", "ChainA">>, <<"p2", "ChainB">> >>
\* claims <<npi, ndc, price, quantity>> of the files recommendations.py reads
ClaimRows ==
    { <<"p1", "d1", 10, 3>>, <<"p1", "d1", 20, 5>>, <<"p2", "d1", 20, 3>>,
      <<"p3", "d1", 10, 5>>, <<"p1", "d2", 10, 5>>, <<"p3", "d2", 20, 3>> }
\* claims of the files the three programs read alike
ClaimRowsA ==
    { <<"p1", "d1", 10, 3>>, <<"p2", "d1", 20, 3>>,
      <<"p3", "d1", 10, 5>>, <<"p1", "d2", 10, 5>> }

(***************************************************************************)
(* Arithmetic: exact quotients.                                            *)
(***************************************************************************)
Abs(n) == IF n < 0 THEN -n ELSE n

RECURSIVE Gcd(_, _)
Gcd(a, b) == IF b = 0 THEN a ELSE Gcd(b, a % b)

\* a / b for b > 0, as a fraction in lowest terms
Quot(a, b) ==
    LET g == Gcd(Abs(a), b)
    IN  [num |-> a \div g, den |-> b \div g]

\* x < y on quotients
QLess(x, y) == x.num * y.den < y.num * x.den

\* x * n = t on quotients
QTimesIs(x, n, t) == x.num * n = t * x.den

RECURSIVE SumSeq(_)
SumSeq(s) == IF s = <<>> THEN 0 ELSE s[1] + SumSeq(Tail(s))

(***************************************************************************)
(* Dicts as sequences of entries [key, val] in insertion order.            *)
(***************************************************************************)
Keys(d) == {d[i].key : i \in DOMAIN d}

IndexOf(d, k) == CHOOSE i \in DOMAIN d : d[i].key = k

\* d[k] of a defaultdict: a missing key is inserted with the default value
GetDefault(d, k, default) ==
    IF k \in Keys(d) THEN d ELSE Append(d, [key |-> k, val |-> default])

\* d[k] = v for a key that is present
Put(d, k, v) == [d EXCEPT ![IndexOf(d, k)].val = v]

Get(d, k) == d[IndexOf(d, k)].val

(***************************************************************************)
(* Reversal index: set(revert['claim_id'] for revert in reverts)           *)
(***************************************************************************)
reverted_claims(rv) == {rv[i].claim_id : i \in DOMAIN rv}

(***************************************************************************)
(* calculate_metrics                                                       *)
(***************************************************************************)
MetricDefault == [fills |-> 0, reverted |-> 0, total_price |-> 0]

\* MetricsStep counting a fill only for a claim that is not reverted
MetricsStepNetFills(m, claim, rc) ==
    LET key == <<claim.npi, claim.ndc>>
        m1  == GetDefault(m, key, MetricDefault)
        old == Get(m1, key)
        new == [fills       |-> IF claim.id \in rc THEN old.fills
                                                   ELSE old.fills + 1,
                reverted    |-> IF claim.id \in rc THEN old.reverted + 1
                                                   ELSE old.reverted,
                total_price |-> old.total_price + claim.price]
    IN  Put(m1, key, new)

\* MetricsStep adding the price only of a claim that is not reverted
MetricsStepNetPrice(m, claim, rc) ==
    LET key == <<claim.npi, claim.ndc>>
        m1  == GetDefault(m, key, MetricDefault)
        old == Get(m1, key)
        new == [fills       |-> old.fills + 1,
                reverted    |-> IF claim.id \in rc THEN old.reverted + 1
                                                   ELSE old.reverted,
                total_price |-> IF claim.id \in rc
                                THEN old.total_price
                                ELSE old.total_price + claim.price]
    IN  Put(m1, key, new)

\* one iteration of "for claim in claims"
MetricsStep(m, claim, rc) ==
    LET key == <<claim.npi, claim.ndc>>
        m1  == GetDefault(m, key, MetricDefault)
        old == Get(m1, key)
        new == [fills       |-> old.fills + 1,
                reverted    |-> IF claim.id \in rc THEN old.reverted + 1
                                                   ELSE old.reverted,
                total_price |-> old.total_price + claim.price]
    IN  Put(m1, key, new)

RECURSIVE MetricsLoop(_, _, _)
MetricsLoop(m, cs, rc) ==
    IF cs = <<>> THEN m
    ELSE MetricsLoop(MetricsStep(m, Head(cs), rc), Tail(cs), rc)

\* MetricRecord with the floor division // in place of /
MetricRecordFloorDiv(e) ==
    [npi         |-> e.key[1],
     ndc         |-> e.key[2],
     fills       |-> e.val.fills,
     reverted    |-> e.val.reverted,
     avg_price   |-> IF e.val.fills # 0
                     THEN Quot(e.val.total_price \div e.val.fills, 1)
                     ELSE Quot(0, 1),
     total_price |-> e.val.total_price]

\* the record emitted for one key
MetricRecord(e) ==
    [npi         |-> e.key[1],
     ndc         |-> e.key[2],
     fills       |-> e.val.fills,
     reverted    |-> e.val.reverted,
     avg_price   |-> IF e.val.fills # 0
                     THEN Quot(e.val.total_price, e.val.fills)
                     ELSE Quot(0, 1),
     total_price |-> e.val.total_price]

\* calculate_metrics counting the reverts of a key, not its reverted claims
calculate_metrics_per_revert(cs, rv) ==
    LET m == MetricsLoop(<<>>, cs, {})
        n(key) == Cardinality({i \in DOMAIN rv :
                      \E c \in DOMAIN cs :
                          /\ cs[c].id = rv[i].claim_id
                          /\ <<cs[c].npi, cs[c].ndc>> = key})
    IN  [i \in DOMAIN m |->
            MetricRecord([m[i] EXCEPT !.val.reverted = n(m[i].key)])]

calculate_metrics(cs, rv) ==
    LET m == MetricsLoop(<<>>, cs, reverted_claims(rv))
    IN  [i \in DOMAIN m |-> MetricRecord(m[i])]

(***************************************************************************)
(* recommendations                                                         *)
(***************************************************************************)
\* ChainOf falling back on the npi itself: pharmacy_chains.get(npi, npi)
ChainOfNpiFallback(pc, npi) == IF npi \in DOMAIN pc THEN pc[npi] ELSE npi

\* pharmacy_chains.get(npi, 'Unknown')
ChainOf(pc, npi) == IF npi \in DOMAIN pc THEN pc[npi] ELSE "Unknown"

\* RecStep leaving a reverted claim out instead of adding its negated price
RecStepDropReverted(nm, claim, rc, pc) ==
    LET ndc    == claim.ndc
        chain  == ChainOf(pc, claim.npi)
        price  == claim.price
        nm1    == GetDefault(nm, ndc, <<>>)
        inner  == GetDefault(Get(nm1, ndc), chain, <<>>)
        prices == Append(Get(inner, chain), price)
    IN  IF claim.id \in rc THEN nm ELSE Put(nm1, ndc, Put(inner, chain, prices))

\* one iteration of "for claim in claims"
RecStep(nm, claim, rc, pc) ==
    LET ndc    == claim.ndc
        chain  == ChainOf(pc, claim.npi)
        price  == claim.price
        nm1    == GetDefault(nm, ndc, <<>>)
        inner  == GetDefault(Get(nm1, ndc), chain, <<>>)
        prices == Append(Get(inner, chain), price)
        after  == IF claim.id \in rc THEN Append(prices, -price) ELSE prices
    IN  Put(nm1, ndc, Put(inner, chain, after))

RECURSIVE RecLoop(_, _, _, _)
RecLoop(nm, cs, rc, pc) ==
    IF cs = <<>> THEN nm
    ELSE RecLoop(RecStep(nm, Head(cs), rc, pc), Tail(cs), rc, pc)

\* ndc_metrics after the first loop
ndc_metrics(cs, rv, pc) == RecLoop(<<>>, cs, reverted_claims(rv), pc)

\* {'name': chain, 'avg_price': sum(prices) / len(prices)}
ChainRecommendation(e) ==
    [name |-> e.key, avg_price |-> Quot(SumSeq(e.val), Len(e.val))]

\* InsertByAvg for a sort with reverse=True: descending by avg_price
InsertByAvgDescending(s, x) ==
    LET later == {i \in DOMAIN s : QLess(s[i].avg_price, x.avg_price)}
        n     == Len(s) - Cardinality(later)
    IN  SubSeq(s, 1, n) \o <<x>> \o SubSeq(s, n + 1, Len(s))

\* insertion of x into a list sorted ascending by avg_price, after its equals
InsertByAvg(s, x) ==
    LET later == {i \in DOMAIN s : QLess(x.avg_price, s[i].avg_price)}
        n     == Len(s) - Cardinality(later)
    IN  SubSeq(s, 1, n) \o <<x>> \o SubSeq(s, n + 1, Len(s))

\* chain_recommendations.sort(key=lambda x: x['avg_price']): a stable sort
RECURSIVE SortByAvg(_)
SortByAvg(s) ==
    IF s = <<>> THEN <<>>
    ELSE InsertByAvg(SortByAvg(SubSeq(s, 1, Len(s) - 1)), s[Len(s)])

\* chain_recommendations[:2]
TopTwo(s) == SubSeq(s, 1, IF Len(s) < 2 THEN Len(s) ELSE 2)

\* the entry emitted for one ndc
NdcRecommendation(e) ==
    LET chain_recommendations == [i \in DOMAIN e.val |-> ChainRecommendation(e.val[i])]
    IN  [ndc |-> e.key, chain |-> TopTwo(SortByAvg(chain_recommendations))]

recommendations(cs, rv, pc) ==
    LET nm == ndc_metrics(cs, rv, pc)
    IN  [i \in DOMAIN nm |-> NdcRecommendation(nm[i])]

(***************************************************************************)
(* most_prescribed                                                         *)
(***************************************************************************)
\* claim.get('quantity', 0.0)
QuantityOf(claim) ==
    IF "quantity" \in DOMAIN claim THEN claim.quantity ELSE 0

\* QuantStep appending the quantity of every claim, reverted or not
QuantStepKeepReverted(nq, claim, rc) ==
    LET ndc      == claim.ndc
        quantity == QuantityOf(claim)
        nq1      == GetDefault(nq, ndc, <<>>)
    IN  Put(nq1, ndc, Append(Get(nq1, ndc), quantity))

\* QuantStep reading ndc_quantities[ndc] before the test, which inserts the key
QuantStepTouchKey(nq, claim, rc) ==
    LET ndc      == claim.ndc
        quantity == QuantityOf(claim)
        nq1      == GetDefault(nq, ndc, <<>>)
    IN  IF claim.id \notin rc
        THEN Put(nq1, ndc, Append(Get(nq1, ndc), quantity))
        ELSE nq1

\* one iteration of "for claim in claims"
QuantStep(nq, claim, rc) ==
    LET ndc      == claim.ndc
        quantity == QuantityOf(claim)
        nq1      == GetDefault(nq, ndc, <<>>)
    IN  IF claim.id \notin rc
        THEN Put(nq1, ndc, Append(Get(nq1, ndc), quantity))
        ELSE nq

RECURSIVE QuantLoop(_, _, _)
QuantLoop(nq, cs, rc) ==
    IF cs = <<>> THEN nq
    ELSE QuantLoop(QuantStep(nq, Head(cs), rc), Tail(cs), rc)

\* ndc_quantities after the first loop
ndc_quantities(cs, rv) == QuantLoop(<<>>, cs, reverted_claims(rv))

\* Counter(quantities): the counts, keyed in order of first occurrence
RECURSIVE Counter(_)
Counter(qs) ==
    IF qs = <<>> THEN <<>>
    ELSE LET c  == Counter(SubSeq(qs, 1, Len(qs) - 1))
             q  == qs[Len(qs)]
             c1 == GetDefault(c, q, 0)
         IN  Put(c1, q, Get(c1, q) + 1)

\* InsertByCount ahead of its equals: an ascending sort that is then reversed
InsertByCountBeforeEquals(s, x) ==
    LET later == {i \in DOMAIN s : s[i].val <= x.val}
        n     == Len(s) - Cardinality(later)
    IN  SubSeq(s, 1, n) \o <<x>> \o SubSeq(s, n + 1, Len(s))

\* insertion of x into a list sorted descending by count, after its equals
InsertByCount(s, x) ==
    LET later == {i \in DOMAIN s : s[i].val < x.val}
        n     == Len(s) - Cardinality(later)
    IN  SubSeq(s, 1, n) \o <<x>> \o SubSeq(s, n + 1, Len(s))

\* Counter.most_common(): sorted(items, key=count, reverse=True), stable
RECURSIVE most_common(_)
most_common(c) ==
    IF c = <<>> THEN <<>>
    ELSE InsertByCount(most_common(SubSeq(c, 1, Len(c) - 1)), c[Len(c)])

\* the entry emitted for one ndc
NdcMostPrescribed(e) ==
    LET mc == most_common(Counter(e.val))
    IN  [ndc |-> e.key,
         most_prescribed_quantity |-> [i \in DOMAIN mc |-> mc[i].key]]

most_prescribed(cs, rv) ==
    LET nq == ndc_quantities(cs, rv)
    IN  [i \in DOMAIN nq |-> NdcMostPrescribed(nq[i])]

(***************************************************************************)
(* The programs: the read_* functions build the collections, then one      *)
(* aggregator is applied to them.                                          *)
(***************************************************************************)
Programs == {"calculate_metrics", "recommendations", "most_prescribed"}

Init ==
    /\ pharmacy_chains = <<>>
    /\ claims = <<>>
    /\ reverts = <<>>
    /\ metrics = <<>>
    /\ recs = <<>>
    /\ most_presc = <<>>
    /\ ran = {}

\* read_pharmacies: pharmacy_chains[row['npi']] = row['chain'], row by row
ReadPharmacy ==
    /\ claims = <<>> /\ reverts = <<>> /\ ran = {}
    /\ Cardinality(DOMAIN pharmacy_chains) < Len(PharmacyFile)
    /\ LET row == PharmacyFile[Cardinality(DOMAIN pharmacy_chains) + 1] IN
       pharmacy_chains' =
           [n \in DOMAIN pharmacy_chains \cup {row[1]} |->
               IF n = row[1] THEN row[2] ELSE pharmacy_chains[n]]
    /\ UNCHANGED <<claims, reverts, metrics, recs, most_presc, ran>>

\* read_claims: claims.append(claim); claim ids are unique
ReadClaim(max, npi, ndc, price, quantity) ==
    /\ reverts = <<>> /\ ran = {}
    /\ Len(claims) < max
    /\ claims' = Append(claims, [id |-> Len(claims) + 1, npi |-> npi, ndc |-> ndc,
                                 price |-> price, quantity |-> quantity])
    /\ UNCHANGED <<pharmacy_chains, reverts, metrics, recs, most_presc, ran>>

\* read_reverts: reverts.append(revert); claim_id 0 is the id of no claim
ReadRevert(max, claim_id) ==
    /\ ran = {}
    /\ Len(reverts) < max
    /\ reverts' = Append(reverts, [id |-> Len(reverts) + 1, claim_id |-> claim_id])
    /\ UNCHANGED <<pharmacy_chains, claims, metrics, recs, most_presc, ran>>

RunCalculateMetrics ==
    /\ "calculate_metrics" \notin ran
    /\ metrics' = calculate_metrics(claims, reverts)
    /\ ran' = ran \cup {"calculate_metrics"}
    /\ UNCHANGED <<pharmacy_chains, claims, reverts, recs, most_presc>>

RunRecommendations ==
    /\ "recommendations" \notin ran
    /\ recs' = recommendations(claims, reverts, pharmacy_chains)
    /\ ran' = ran \cup {"recommendations"}
    /\ UNCHANGED <<pharmacy_chains, claims, reverts, metrics, most_presc>>

\* most_prescribed.py passes pharmacy_chains as a third argument, which the
\* function does not take; the action applies the function to the two
\* collections it declares
RunMostPrescribed ==
    /\ "most_prescribed" \notin ran
    /\ most_presc' = most_prescribed(claims, reverts)
    /\ ran' = ran \cup {"most_prescribed"}
    /\ UNCHANGED <<pharmacy_chains, claims, reverts, metrics, recs>>

\* calculate_metrics.py
ReadClaimM ==
    \E npi \in NPIs, ndc \in NDCs, price \in Prices :
        ReadClaim(MaxClaimsM, npi, ndc, price, 3)

ReadRevertM == \E id \in 0 .. MaxClaimsM : ReadRevert(MaxRevertsM, id)

NextM == ReadClaimM \/ ReadRevertM \/ RunCalculateMetrics

SpecM == Init /\ [][NextM]_vars

\* most_prescribed.py
ReadClaimQ ==
    \E ndc \in NDCs, quantity \in Quantities :
        ReadClaim(MaxClaimsQ, "p1", ndc, 10, quantity)

ReadRevertQ == \E id \in 0 .. MaxClaimsQ : ReadRevert(MaxRevertsQ, id)

NextQ == ReadClaimQ \/ ReadRevertQ \/ RunMostPrescribed

SpecQ == Init /\ [][NextQ]_vars

\* recommendations.py
ReadClaimR ==
    \E row \in ClaimRows :
        ReadClaim(MaxClaimsR, row[1], row[2], row[3], row[4])

\* a claim_id beyond the claims read is the id of no claim
ReadRevertR == \E id \in 1 .. MaxClaimsR : ReadRevert(MaxRevertsR, id)

NextR == ReadPharmacy \/ ReadClaimR \/ ReadRevertR \/ RunRecommendations

SpecR == Init /\ [][NextR]_vars

\* the three reports computed from the same input files
ReadClaimA ==
    \E row \in ClaimRowsA :
        ReadClaim(MaxClaimsA, row[1], row[2], row[3], row[4])

ReadRevertA == \E id \in 0 .. MaxClaimsA : ReadRevert(MaxRevertsA, id)

NextA ==
    \/ ReadPharmacy
    \/ ReadClaimA
    \/ ReadRevertA
    \/ RunCalculateMetrics
    \/ RunRecommendations
    \/ RunMostPrescribed

Spec == Init /\ [][NextA]_vars

(***************************************************************************)
(* Vocabulary of the properties, stated on the inputs.                     *)
(***************************************************************************)
ClaimIds == {claims[i].id : i \in DOMAIN claims}

\* the claim ids some revert names
MatchedReverts == reverted_claims(reverts) \cap ClaimIds

Reverted(i) == claims[i].id \in reverted_claims(reverts)

\* positions of the claims of one (npi, ndc) key
OfKey(npi, ndc) == {i \in DOMAIN claims : claims[i].npi = npi /\ claims[i].ndc = ndc}

Distinct(s) == \A i, j \in DOMAIN s : i # j => s[i] # s[j]

(***************************************************************************)
(* C1: the fills of all emitted records add up to the number of claims,    *)
(* and their reverted counters add up to the number of distinct revert     *)
(* claim_ids that are the id of some claim (duplicate and dangling reverts *)
(* included in the input).                                                 *)
(***************************************************************************)
C1_SumsOfFillsAndReverted ==
    "calculate_metrics" \in ran =>
        /\ SumSeq([i \in DOMAIN metrics |-> metrics[i].fills]) = Len(claims)
        /\ SumSeq([i \in DOMAIN metrics |-> metrics[i].reverted])
               = Cardinality(MatchedReverts)

\* two records, and a claim that two reverts name
C1_Witness ==
    /\ "calculate_metrics" \in ran
    /\ Len(metrics) >= 2
    /\ \E i, j \in DOMAIN reverts :
           i # j /\ reverts[i].claim_id = reverts[j].claim_id
                 /\ reverts[i].claim_id \in ClaimIds

(***************************************************************************)
(* C2: a revert added for a claim c that is not yet reverted changes only  *)
(* the reverted counter of the record of (c.npi, c.ndc), by +1: the keys,  *)
(* their order, fills, total_price and avg_price of every record stay.     *)
(***************************************************************************)
C2_RevertChangesOnlyReverted ==
    "calculate_metrics" \in ran =>
        \A c \in DOMAIN claims :
            ~Reverted(c) =>
                LET more  == Append(reverts, [id |-> Len(reverts) + 1,
                                              claim_id |-> claims[c].id])
                    after == calculate_metrics(claims, more)
                IN  /\ Len(after) = Len(metrics)
                    /\ \A i \in DOMAIN metrics :
                           after[i] =
                               IF    metrics[i].npi = claims[c].npi
                                  /\ metrics[i].ndc = claims[c].ndc
                               THEN [metrics[i] EXCEPT !.reverted = @ + 1]
                               ELSE metrics[i]

\* a key with a reverted and a not yet reverted claim, next to another key
C2_Witness ==
    /\ "calculate_metrics" \in ran
    /\ Len(metrics) >= 2
    /\ \E i, j \in DOMAIN claims :
           /\ i # j
           /\ claims[i].npi = claims[j].npi /\ claims[i].ndc = claims[j].ndc
           /\ Reverted(i) /\ ~Reverted(j)

(***************************************************************************)
(* C3: one record per distinct (npi, ndc) of the claims; in every record   *)
(* fills >= 1, 0 <= reverted <= fills and avg_price * fills = total_price, *)
(* so avg_price is never the 0 of the divide-by-zero guard.                *)
(***************************************************************************)
C3_OneRecordPerKey ==
    "calculate_metrics" \in ran =>
        /\ Distinct([i \in DOMAIN metrics |-> <<metrics[i].npi, metrics[i].ndc>>])
        /\ {<<metrics[i].npi, metrics[i].ndc>> : i \in DOMAIN metrics}
               = {<<claims[i].npi, claims[i].ndc>> : i \in DOMAIN claims}
        /\ \A i \in DOMAIN metrics :
               /\ metrics[i].fills >= 1
               /\ metrics[i].fills = Cardinality(OfKey(metrics[i].npi, metrics[i].ndc))
               /\ 0 <= metrics[i].reverted
               /\ metrics[i].reverted <= metrics[i].fills
               /\ metrics[i].avg_price.den > 0
               /\ QTimesIs(metrics[i].avg_price, metrics[i].fills,
                           metrics[i].total_price)

\* a record of several fills, one reverted, whose average is no whole number
C3_Witness ==
    /\ "calculate_metrics" \in ran
    /\ \E i \in DOMAIN metrics :
           /\ metrics[i].fills >= 2
           /\ metrics[i].reverted >= 1
           /\ metrics[i].avg_price.den # 1

(***************************************************************************)
(* Vocabulary of the quantity ranking, stated on the inputs.               *)
(***************************************************************************)
\* the subsequence of s at the positions in S
RECURSIVE Restrict(_, _)
Restrict(s, S) ==
    IF s = <<>> THEN <<>>
    ELSE LET r == Restrict(SubSeq(s, 1, Len(s) - 1), S)
         IN  IF Len(s) \in S THEN Append(r, s[Len(s)]) ELSE r

\* the claims list with every reverted claim deleted
Survivors == Restrict(claims, {i \in DOMAIN claims : ~Reverted(i)})

\* positions of the non-reverted claims of one ndc
LiveOf(ndc) == {i \in DOMAIN claims : claims[i].ndc = ndc /\ ~Reverted(i)}

\* how often, and where first, a quantity occurs among them
Freq(ndc, q) == Cardinality({i \in LiveOf(ndc) : claims[i].quantity = q})

First(ndc, q) ==
    CHOOSE i \in LiveOf(ndc) :
        /\ claims[i].quantity = q
        /\ \A j \in LiveOf(ndc) : claims[j].quantity = q => i <= j

\* position of the first non-reverted claim of an ndc
FirstLive(ndc) == CHOOSE i \in LiveOf(ndc) : \A j \in LiveOf(ndc) : i <= j

(***************************************************************************)
(* C4: a reverted claim has no effect on the ranking: the output is the    *)
(* output for the claims list with every reverted claim deleted and no     *)
(* reverts at all.                                                         *)
(***************************************************************************)
C4_RevertedClaimsHaveNoEffect ==
    "most_prescribed" \in ran =>
        most_presc = most_prescribed(Survivors, <<>>)

\* a reverted claim between two non-reverted claims of its ndc
C4_Witness ==
    /\ "most_prescribed" \in ran
    /\ \E i, j, k \in DOMAIN claims :
           /\ i < j /\ j < k
           /\ claims[i].ndc = claims[j].ndc /\ claims[j].ndc = claims[k].ndc
           /\ ~Reverted(i) /\ Reverted(j) /\ ~Reverted(k)
           /\ claims[j].quantity # claims[i].quantity

(***************************************************************************)
(* C5: the list of an ndc holds every distinct quantity of its             *)
(* non-reverted claims exactly once, by non-increasing frequency, and      *)
(* quantities of equal frequency in the order of their first occurrence    *)
(* in the claims list.                                                     *)
(***************************************************************************)
C5_RankedByFrequencyThenFirstSeen ==
    "most_prescribed" \in ran =>
        \A e \in DOMAIN most_presc :
            LET ndc == most_presc[e].ndc
                L   == most_presc[e].most_prescribed_quantity
            IN  /\ Distinct(L)
                /\ {L[i] : i \in DOMAIN L}
                       = {claims[i].quantity : i \in LiveOf(ndc)}
                /\ \A i, j \in DOMAIN L :
                       i < j =>
                           \/ Freq(ndc, L[i]) > Freq(ndc, L[j])
                           \/ /\ Freq(ndc, L[i]) = Freq(ndc, L[j])
                              /\ First(ndc, L[i]) < First(ndc, L[j])

\* quantities 5, 5, 3, 3 of one ndc, in that order, ranked <<5, 3>>
C5_Witness ==
    /\ "most_prescribed" \in ran
    /\ Len(claims) = 4
    /\ \A i \in DOMAIN claims : claims[i].ndc = "d1" /\ ~Reverted(i)
    /\ [i \in DOMAIN claims |-> claims[i].quantity] = <<5, 5, 3, 3>>
    /\ most_presc = << [ndc |-> "d1", most_prescribed_quantity |-> <<5, 3>>] >>

(***************************************************************************)
(* C10: an ndc has an entry iff some non-reverted claim has that ndc; no   *)
(* ndc has two entries, no list is empty, and the entries are in the order *)
(* of the first non-reverted claim of each ndc.                            *)
(***************************************************************************)
C10_EntryIffLiveClaim ==
    "most_prescribed" \in ran =>
        /\ {most_presc[e].ndc : e \in DOMAIN most_presc}
               = {claims[i].ndc : i \in {j \in DOMAIN claims : ~Reverted(j)}}
        /\ Distinct([e \in DOMAIN most_presc |-> most_presc[e].ndc])
        /\ \A e \in DOMAIN most_presc :
               most_presc[e].most_prescribed_quantity # <<>>
        /\ \A e, f \in DOMAIN most_presc :
               e < f => FirstLive(most_presc[e].ndc) < FirstLive(most_presc[f].ndc)

\* the first claim is the only one of its ndc and is reverted; the other
\* ndc has the only entry
C10_Witness ==
    /\ "most_prescribed" \in ran
    /\ Len(claims) >= 2
    /\ Reverted(1)
    /\ \A i \in DOMAIN claims : i # 1 => claims[i].ndc # claims[1].ndc /\ ~Reverted(i)
    /\ Len(most_presc) = 1

(***************************************************************************)
(* Vocabulary of the chain recommendation, stated on the inputs.           *)
(***************************************************************************)
\* the chain a claim is priced under
ChainName(i) ==
    IF claims[i].npi \in DOMAIN pharmacy_chains
    THEN pharmacy_chains[claims[i].npi]
    ELSE "Unknown"

\* positions of the claims of one (ndc, chain) group
Group(ndc, chain) ==
    {i \in DOMAIN claims : claims[i].ndc = ndc /\ ChainName(i) = chain}

ChainsOf(ndc) == {ChainName(i) : i \in {j \in DOMAIN claims : claims[j].ndc = ndc}}

\* sum of the prices of the non-reverted claims of a group
LiveSum(ndc, chain) ==
    LET rc == reverted_claims(reverts)
    IN  SumSeq([i \in DOMAIN claims |->
                   IF    claims[i].ndc = ndc /\ ChainName(i) = chain
                      /\ claims[i].id \notin rc
                   THEN claims[i].price ELSE 0])

\* the samples a group must hold: the price of each of its claims, in the
\* order of the claims, followed by the negated price when the claim is reverted
RECURSIVE SamplesUpTo(_, _, _)
SamplesUpTo(n, ndc, chain) ==
    IF n = 0 THEN <<>>
    ELSE LET before == SamplesUpTo(n - 1, ndc, chain)
         IN  IF claims[n].ndc = ndc /\ ChainName(n) = chain
             THEN before \o (IF Reverted(n)
                             THEN <<claims[n].price, -claims[n].price>>
                             ELSE <<claims[n].price>>)
             ELSE before

\* number of claims of a group plus number of reverted claims of the group
Samples(ndc, chain) ==
    Cardinality(Group(ndc, chain))
        + Cardinality({i \in Group(ndc, chain) : Reverted(i)})

\* x = a / b on quotients
QIs(x, a, b) == x.den > 0 /\ x.num * b = a * x.den

\* every (ndc, chain) group with its average, before sorting and slicing
AllChains ==
    LET nm == ndc_metrics(claims, reverts, pharmacy_chains)
    IN  [i \in DOMAIN nm |->
            [ndc   |-> nm[i].key,
             chain |-> [j \in DOMAIN nm[i].val |-> ChainRecommendation(nm[i].val[j])]]]

(***************************************************************************)
(* C6: the chain list of an ndc has min(2, number of distinct chains with  *)
(* a claim for the ndc) entries, so 1 or 2; it is sorted ascending by      *)
(* avg_price, and no chain left out is strictly cheaper than a listed one. *)
(***************************************************************************)
C6_TwoCheapestChains ==
    "recommendations" \in ran =>
        LET groups == AllChains IN
        \A e \in DOMAIN recs :
            LET L   == recs[e].chain
                n   == Cardinality(ChainsOf(recs[e].ndc))
                all == groups[e].chain
            IN  /\ Len(L) = IF n < 2 THEN n ELSE 2
                /\ Len(L) \in {1, 2}
                /\ \A i, j \in DOMAIN L :
                       i < j => ~QLess(L[j].avg_price, L[i].avg_price)
                /\ groups[e].ndc = recs[e].ndc
                /\ \A i \in DOMAIN L : \E k \in DOMAIN all : all[k] = L[i]
                /\ \A k \in DOMAIN all :
                       (\A i \in DOMAIN L : L[i].name # all[k].name) =>
                           \A i \in DOMAIN L :
                               ~QLess(all[k].avg_price, L[i].avg_price)

\* three chains of three different averages, the first one met the dearest
C6_Witness ==
    /\ "recommendations" \in ran
    /\ \E e \in DOMAIN recs :
           LET all == AllChains[e].chain
           IN  /\ Len(all) = 3
               /\ QLess(all[2].avg_price, all[1].avg_price)
               /\ QLess(all[3].avg_price, all[2].avg_price)
               /\ recs[e].chain = <<all[3], all[2]>>

(***************************************************************************)
(* C7: the avg_price of an (ndc, chain) group is the sum of the prices of  *)
(* its non-reverted claims over the number of its claims plus the number   *)
(* of its reverted claims, however many reverts name a claim; it is 0 when *)
(* every claim of the group is reverted.                                   *)
(***************************************************************************)
C7_AverageWithNegatedSamples ==
    "recommendations" \in ran =>
        LET groups == AllChains
        IN  /\ \A e \in DOMAIN groups :
                   \A k \in DOMAIN groups[e].chain :
                       LET ndc == groups[e].ndc
                           c   == groups[e].chain[k]
                       IN  /\ QIs(c.avg_price, LiveSum(ndc, c.name),
                                  Samples(ndc, c.name))
                           /\ (\A i \in Group(ndc, c.name) : Reverted(i))
                                  => c.avg_price.num = 0
            \* every listed chain is one of these groups, with its average
            /\ \A e \in DOMAIN recs :
                   /\ recs[e].ndc = groups[e].ndc
                   /\ \A k \in DOMAIN recs[e].chain :
                          \E j \in DOMAIN groups[e].chain :
                              groups[e].chain[j] = recs[e].chain[k]

\* a listed group of two claims, one of them named by two reverts
C7_Witness ==
    /\ "recommendations" \in ran
    /\ Len(reverts) = 2
    /\ reverts[1].claim_id = reverts[2].claim_id
    /\ \E e \in DOMAIN recs :
           \E k \in DOMAIN recs[e].chain :
               LET g == Group(recs[e].ndc, recs[e].chain[k].name)
               IN  /\ Cardinality(g) = 2
                   /\ \E i, j \in g : Reverted(i) /\ ~Reverted(j)
                   /\ recs[e].chain[k].avg_price.num > 0

(***************************************************************************)
(* C8: no claim is left out for an npi missing from the directory: every   *)
(* claim adds its price to the group of its ndc and of directory[npi], or  *)
(* of "Unknown" when the npi is no directory key.  So every ndc of the     *)
(* claims has an entry, and the unknown-npi claims of an ndc form one      *)
(* chain "Unknown", listed when it is among the two cheapest.              *)
(***************************************************************************)
C8_UnknownNpiIsCounted ==
    "recommendations" \in ran =>
        /\ {recs[e].ndc : e \in DOMAIN recs} = {claims[i].ndc : i \in DOMAIN claims}
        /\ Distinct([e \in DOMAIN recs |-> recs[e].ndc])
        /\ LET nm == ndc_metrics(claims, reverts, pharmacy_chains) IN
           \A e \in DOMAIN recs :
               LET ndc == recs[e].ndc
                   L   == recs[e].chain
                   g   == nm[e].val
                   all == [k \in DOMAIN g |-> ChainRecommendation(g[k])]
               IN  /\ nm[e].key = ndc
                   /\ {g[k].key : k \in DOMAIN g} = ChainsOf(ndc)
                   /\ Distinct([k \in DOMAIN g |-> g[k].key])
                   /\ \A k \in DOMAIN g :
                          g[k].val = SamplesUpTo(Len(claims), ndc, g[k].key)
                   /\ \A k \in DOMAIN L : \E j \in DOMAIN all : all[j] = L[k]
                   /\ Distinct([k \in DOMAIN L |-> L[k].name])
                   /\ ("Unknown" \in ChainsOf(ndc) /\ Len(g) <= 2)
                          => \E k \in DOMAIN L : L[k].name = "Unknown"
                   /\ \A u \in DOMAIN all :
                          (/\ all[u].name = "Unknown"
                           /\ \A k \in DOMAIN all \ {u} :
                                  QLess(all[u].avg_price, all[k].avg_price))
                              => L[1] = all[u]

\* claims of two npis missing from the directory pooled under "Unknown",
\* which is listed first, ahead of a chain of the directory
C8_Witness ==
    /\ "recommendations" \in ran
    /\ \E e \in DOMAIN recs :
           /\ Len(recs[e].chain) = 2
           /\ recs[e].chain[1].name = "Unknown"
           /\ \E i, j \in Group(recs[e].ndc, "Unknown") :
                  claims[i].npi # claims[j].npi

(***************************************************************************)
(* Vocabulary of the reversal index, stated on the inputs.                 *)
(***************************************************************************)
\* the elements of a set of numbers, ascending
RECURSIVE Ascending(_)
Ascending(S) ==
    IF S = {} THEN <<>>
    ELSE LET m == CHOOSE x \in S : \A y \in S : x <= y
         IN  <<m>> \o Ascending(S \ {m})

\* one revert per matched claim id and nothing else
CanonicalReverts ==
    LET ids == Ascending(MatchedReverts)
    IN  [i \in DOMAIN ids |-> [id |-> i, claim_id |-> ids[i]]]

\* reverts with one more revert that names no claim
WithDangling == Append(reverts, [id |-> Len(reverts) + 1, claim_id |-> 0])

\* reverts with one more revert for the claim that revert i names
WithDuplicate(i) ==
    Append(reverts, [id |-> Len(reverts) + 1, claim_id |-> reverts[i].claim_id])

\* reverts with the reverts i and j exchanged
Exchanged(i, j) == [reverts EXCEPT ![i] = reverts[j], ![j] = reverts[i]]

\* the lists of reverts the three aggregators must not tell from reverts
SameReversals ==
    {CanonicalReverts, WithDangling}
        \cup {WithDuplicate(i) : i \in DOMAIN reverts}
        \cup {Exchanged(i, j) : i, j \in DOMAIN reverts}

(***************************************************************************)
(* C9: each aggregator depends on the reverts only through the set of      *)
(* claim_ids that are the id of some claim: the output is that of one      *)
(* revert per such id, and a dangling revert more, a duplicate revert more *)
(* or another order of the reverts changes the output of none of them.     *)
(***************************************************************************)
C9_OnlyMatchedRevertIdsCount ==
    \A rv \in SameReversals :
        /\ "calculate_metrics" \in ran => metrics = calculate_metrics(claims, rv)
        /\ "most_prescribed" \in ran => most_presc = most_prescribed(claims, rv)
        /\ "recommendations" \in ran
               => recs = recommendations(claims, rv, pharmacy_chains)

\* the three reports of two claims, with a dangling revert ahead of a revert
\* of the second claim
C9_Witness ==
    /\ ran = Programs
    /\ Len(claims) = 2
    /\ Len(reverts) = 2
    /\ reverts[1].claim_id \notin ClaimIds
    /\ reverts[2].claim_id = claims[2].id
    /\ \E i \in DOMAIN metrics : metrics[i].reverted = 1

====
